---- MODULE Spec2Model ----
(***************************************************************************)
(* A model of the essay-time planner: the score projection and reward      *)
(* models of models.py and the Monte Carlo tree search of mcts.py.         *)
(*                                                                         *)
(* Units.  Hours are whole hours.  Essay scores are exact rationals        *)
(* [n, d] in lowest terms.  Rewards are integers in units of               *)
(* 1 / (l_den * num_samples): school_reward is scaled by l_den (l = 0.1    *)
(* becomes 1), and calculate_expected_reward keeps the sum over its        *)
(* samples instead of dividing by num_samples.  Arithmetic is exact where  *)
(* the program's is floating point.                                        *)
(*                                                                         *)
(* Randomness (the rollout policy, the admission draws) and the wall       *)
(* clock are nondeterministic choices.  get_probability is represented by  *)
(* the class of its result (0.0, 1.0 or in between) for each school at     *)
(* each of the two essay scores the school can have within one search;     *)
(* the student's sat_score is taken to be a key of the percentile table,   *)
(* and sat_score, gpa and gpa_percentile, which no action changes, are     *)
(* left out of the student.  mcts_search runs with its default             *)
(* exploration_weight 1.41 and exploitation_weight 1.0.  scipy's curve_fit *)
(* is an input: it raises or yields a score.                               *)
(*                                                                         *)
(* Spec is mcts_search.  SpecReward, SpecEssay and SpecActions call        *)
(* school_reward, expected_essay_improvement, and available_actions with   *)
(* apply_action directly, on bounded inputs.                               *)
(***************************************************************************)
EXTENDS Integers, Sequences, FiniteSets, TLC

VARIABLES
    schools_data,   \* the catalog handed to mcts_search
    student,        \* the student handed to mcts_search
    colleges,       \* names in schools.json, as loaded by _load_data
    admits,         \* get_probability, by class: admits[name][worked]
    time_limit,     \* mcts_search's time_limit
    now,            \* last reading of time.time() - start_time
    iteration,      \* mcts_search's local iteration
    tree,           \* the MCTSNode objects, root first
    pc,             \* position in mcts_search
    node,           \* mcts_search's local node (index into tree, 0 = none)
    roll,           \* rollout's locals
    reward,         \* mcts_search's local reward
    result,         \* the value mcts_search returned
    starts,         \* history: the node each backpropagate call started at
    rollouts,       \* history: the number of rollout calls that returned
    fn,             \* the pure function last called directly
    arg,            \* its arguments
    out             \* its return value

vars == <<schools_data, student, colleges, admits, time_limit, now, iteration,
          tree, pc, node, roll, reward, result, starts, rollouts, fn, arg, out>>

searchVars == <<schools_data, student, colleges, admits, time_limit, now,
                iteration, tree, pc, node, roll, reward, result, starts, rollouts>>

callVars == <<fn, arg, out>>

-----------------------------------------------------------------------------
(* Program constants *)

MAX_HOURS_PER_SCHOOL == 2
HOURS_PER_ACTION == 2
COST_PER_HOUR_x10 == -5
l_den == 10
STOP_ACTION == "STOP"
NoAction == "None"
DEFAULT_ESSAY_SCORE == 700
BASELINE_SCORE == 800
SINGLE_POINT_SLOPE == 7
PROJECTION_HOURS == 2
EPS_DEN == 1000000

(* Bounds of the model *)

MaxIter == 5        \* iterations after which the clock is past the deadline
NumSamples == 1     \* num_samples of calculate_expected_reward
MaxAdmitted == 3    \* longest admitted list given to school_reward directly
MaxHistory == 2     \* longest history a direct apply_action sequence builds

AllNames == {"A", "B"}

-----------------------------------------------------------------------------
(* Exact rationals for essay scores *)

RECURSIVE Gcd(_, _)
Gcd(a, b) == IF b = 0 THEN a ELSE Gcd(b, a % b)

Abs(x) == IF x < 0 THEN -x ELSE x

Rat(n, d) ==
    LET s == IF d < 0 THEN -1 ELSE 1
        g == Gcd(Abs(n), Abs(d))
    IN  [n |-> (s * n) \div g, d |-> (s * d) \div g]

RInt(i) == [n |-> i, d |-> 1]
RAdd(a, b) == Rat(a.n * b.d + b.n * a.d, a.d * b.d)
RSub(a, b) == Rat(a.n * b.d - b.n * a.d, a.d * b.d)
RMul(a, b) == Rat(a.n * b.n, a.d * b.d)
RDiv(a, b) == Rat(a.n * b.d, a.d * b.n)
RLess(a, b) == a.n * b.d < b.n * a.d
\* Python's max(a, b): b only when it is greater than a
RMax(a, b) == IF RLess(a, b) THEN b ELSE a

Eps == Rat(1, EPS_DEN)

-----------------------------------------------------------------------------
(* models.py *)

\* admitted_schools_data: for each admitted name the first catalog entry of
\* that name, names without an entry skipped
RECURSIVE Resolve(_, _)
Resolve(admitted, schools) ==
    IF admitted = <<>> THEN <<>>
    ELSE LET hits == {i \in 1..Len(schools) : schools[i].name = Head(admitted)}
             rest == Resolve(Tail(admitted), schools)
         IN  IF hits = {} THEN rest
             ELSE LET first == CHOOSE i \in hits : \A j \in hits : i <= j
                  IN  <<schools[first]>> \o rest

\* list.sort(key = desireability, reverse = True): a stable insertion sort
RECURSIVE InsertDesc(_, _)
InsertDesc(s, sorted) ==
    IF sorted = <<>> THEN <<s>>
    ELSE IF Head(sorted).desireability >= s.desireability
         THEN <<Head(sorted)>> \o InsertDesc(s, Tail(sorted))
         ELSE <<s>> \o sorted

RECURSIVE SortDesc(_)
SortDesc(seq) ==
    IF seq = <<>> THEN <<>>
    ELSE InsertDesc(seq[Len(seq)], SortDesc(SubSeq(seq, 1, Len(seq) - 1)))

RECURSIVE SumRest(_)
SumRest(seq) ==
    IF seq = <<>> THEN 0 ELSE Head(seq).desireability + SumRest(Tail(seq))

\* a mutant: the admitted entries are left in list order, not sorted
school_reward_unsorted(admitted, schools) ==
    LET data == Resolve(admitted, schools)
    IN  IF Len(data) = 0 THEN 0
        ELSE l_den * data[1].desireability + SumRest(Tail(data))

\* school_reward with l = 0.1, times l_den
school_reward(admitted, schools) ==
    LET data == SortDesc(Resolve(admitted, schools))
    IN  IF Len(data) = 0 THEN 0
        ELSE l_den * data[1].desireability + SumRest(Tail(data))

\* the outcome of scipy's curve_fit followed by log_curve: either it raises,
\* or it yields some projected score
FitRaises == [ok |-> FALSE, value |-> RInt(0)]
FitYields(v) == [ok |-> TRUE, value |-> v]

\* a mutant: the two-checkpoint slope divides by h1 - h0 unguarded by Eps,
\* and by 1 when that is 0
expected_essay_improvement_unguarded(history, fit) ==
    IF Len(history) <= 1
    THEN IF Len(history) = 0 THEN RInt(BASELINE_SCORE)
         ELSE RAdd(history[1].score, RInt(SINGLE_POINT_SLOPE * PROJECTION_HOURS))
    ELSE LET h0 == history[1].hours
             h1 == history[2].hours
             s0 == history[1].score
             s1 == history[2].score
             slope == RDiv(RSub(s1, s0), RInt(IF h1 = h0 THEN 1 ELSE h1 - h0))
         IN  RAdd(s1, RMul(slope, RInt(PROJECTION_HOURS)))

expected_essay_improvement(history, fit) ==
    IF Len(history) <= 1
    THEN IF Len(history) = 0 THEN RInt(BASELINE_SCORE)
         ELSE RAdd(history[1].score, RInt(SINGLE_POINT_SLOPE * PROJECTION_HOURS))
    ELSE IF Len(history) = 2
    THEN LET h0 == history[1].hours
             h1 == history[2].hours
             s0 == history[1].score
             s1 == history[2].score
             slope == RDiv(RSub(s1, s0), RMax(Eps, RInt(h1 - h0)))
         IN  RAdd(s1, RMul(slope, RInt(PROJECTION_HOURS)))
    ELSE IF fit.ok THEN fit.value
    ELSE LET last == history[Len(history)]
             total_hours_spent == RInt(last.hours - history[1].hours)
             slope == RDiv(RSub(last.score, history[1].score),
                           RAdd(total_hours_spent, Eps))
         IN  RAdd(last.score, RMul(slope, RInt(PROJECTION_HOURS)))

-----------------------------------------------------------------------------
(* mcts.py: actions and their effect on a student *)

RECURSIVE MaxHours(_)
MaxHours(history) ==
    IF Len(history) = 1 THEN history[1].hours
    ELSE LET m == MaxHours(Tail(history))
         IN  IF m > Head(history).hours THEN m ELSE Head(history).hours

get_total_hours(st, school_name) ==
    LET history == st.application_score_history[school_name]
    IN  IF history = <<>> THEN 0 ELSE MaxHours(history)

\* a mutant: the hours of the last checkpoint, not the largest
RECURSIVE available_actions_last_hours(_, _)
available_actions_last_hours(st, schools) ==
    IF schools = <<>> THEN <<STOP_ACTION>>
    ELSE LET school == Head(schools)
             history == st.application_score_history[school.name]
             hours == IF history = <<>> THEN 0 ELSE history[Len(history)].hours
             rest == available_actions_last_hours(st, Tail(schools))
         IN  IF school.applying /\ hours < MAX_HOURS_PER_SCHOOL
             THEN <<school.name>> \o rest
             ELSE rest

\* a mutant: a school is offered until it has been worked on twice
RECURSIVE available_actions_twice(_, _)
available_actions_twice(st, schools) ==
    IF schools = <<>> THEN <<STOP_ACTION>>
    ELSE LET school == Head(schools)
             rest == available_actions_twice(st, Tail(schools))
         IN  IF school.applying
                /\ get_total_hours(st, school.name) < 2 * MAX_HOURS_PER_SCHOOL
             THEN <<school.name>> \o rest
             ELSE rest

\* a mutant: the hours test is <=, so a school with 2 hours is still offered
RECURSIVE available_actions_inclusive(_, _)
available_actions_inclusive(st, schools) ==
    IF schools = <<>> THEN <<STOP_ACTION>>
    ELSE LET school == Head(schools)
             rest == available_actions_inclusive(st, Tail(schools))
         IN  IF school.applying
                /\ get_total_hours(st, school.name) <= MAX_HOURS_PER_SCHOOL
             THEN <<school.name>> \o rest
             ELSE rest

\* the loop over schools_data, then actions.append(STOP_ACTION)
RECURSIVE available_actions(_, _)
available_actions(st, schools) ==
    IF schools = <<>> THEN <<STOP_ACTION>>
    ELSE LET school == Head(schools)
             rest == available_actions(st, Tail(schools))
         IN  IF school.applying
                /\ get_total_hours(st, school.name) < MAX_HOURS_PER_SCHOOL
             THEN <<school.name>> \o rest
             ELSE rest

\* copy.deepcopy: values of the model are immutable, a copy is the value
copy_student(st) ==
    [application_scores |-> st.application_scores,
     application_score_history |-> st.application_score_history]

copy_schools(schools) == schools

\* a mutant: the new score goes into the history but not into
\* application_scores
apply_action_stale_score(st, schools, action, fit) ==
    LET new_student == copy_student(st)
        new_schools == copy_schools(schools)
    IN  IF action = STOP_ACTION
        THEN [student |-> new_student, schools |-> new_schools, hours_spent |-> 0]
        ELSE LET history == new_student.application_score_history[action]
                 new_score == expected_essay_improvement(history, fit)
                 new_hours == get_total_hours(new_student, action) + HOURS_PER_ACTION
             IN  [student |->
                    [application_scores |-> new_student.application_scores,
                     application_score_history |->
                        [new_student.application_score_history EXCEPT ![action] =
                            Append(history, [hours |-> new_hours, score |-> new_score])]],
                  schools |-> new_schools,
                  hours_spent |-> HOURS_PER_ACTION]

\* a mutant: hours_spent is set before the test for STOP, so STOP costs 2 hours
apply_action_stop_charged(st, schools, action, fit) ==
    LET new_student == copy_student(st)
        new_schools == copy_schools(schools)
    IN  IF action = STOP_ACTION
        THEN [student |-> new_student, schools |-> new_schools,
              hours_spent |-> HOURS_PER_ACTION]
        ELSE LET history == new_student.application_score_history[action]
                 new_score == expected_essay_improvement(history, fit)
                 new_hours == get_total_hours(new_student, action) + HOURS_PER_ACTION
             IN  [student |->
                    [application_scores |->
                        [new_student.application_scores EXCEPT ![action] = new_score],
                     application_score_history |->
                        [new_student.application_score_history EXCEPT ![action] =
                            Append(history, [hours |-> new_hours, score |-> new_score])]],
                  schools |-> new_schools,
                  hours_spent |-> HOURS_PER_ACTION]

apply_action(st, schools, action, fit) ==
    LET new_student == copy_student(st)
        new_schools == copy_schools(schools)
    IN  IF action = STOP_ACTION
        THEN [student |-> new_student, schools |-> new_schools, hours_spent |-> 0]
        ELSE LET history == new_student.application_score_history[action]
                 new_score == expected_essay_improvement(history, fit)
                 current_hours == get_total_hours(new_student, action)
                 new_hours == current_hours + HOURS_PER_ACTION
             IN  [student |->
                    [application_scores |->
                        [new_student.application_scores EXCEPT ![action] = new_score],
                     application_score_history |->
                        [new_student.application_score_history EXCEPT ![action] =
                            Append(history, [hours |-> new_hours, score |-> new_score])]],
                  schools |-> new_schools,
                  hours_spent |-> HOURS_PER_ACTION]

-----------------------------------------------------------------------------
(* Direct calls of the pure functions, on bounded inputs *)

BoundedSeq(S, n) == UNION {[1..k -> S] : k \in 0..n}

Range(seq) == {seq[i] : i \in 1..Len(seq)}

School(name, applying, desireability) ==
    [name |-> name, applying |-> applying, desireability |-> desireability]

Point(hours, score) == [hours |-> hours, score |-> RInt(score)]

\* no entry in application_scores
NoScore == [n |-> 0, d |-> 0]

\* the search is not running
IdleSearch ==
    /\ schools_data = <<>>
    /\ student = [application_scores |-> [n \in AllNames |-> NoScore],
                  application_score_history |-> [n \in AllNames |-> <<>>]]
    /\ colleges = {}
    /\ admits = [n \in AllNames |-> [w \in BOOLEAN |-> "never"]]
    /\ time_limit = 0
    /\ now = 0
    /\ iteration = 0
    /\ tree = <<>>
    /\ pc = "idle"
    /\ node = 0
    /\ roll = <<>>
    /\ reward = 0
    /\ result = NoAction
    /\ starts = <<>>
    /\ rollouts = 0

NoCall ==
    /\ fn = "none"
    /\ arg = <<>>
    /\ out = <<>>

(* school_reward *)

RewardNames == AllNames \cup {"X"}

RewardCatalogs ==
    { <<>>,
      <<School("A", TRUE, 3), School("B", TRUE, 3)>>,
      <<School("A", TRUE, 1), School("B", FALSE, 2)>>,
      <<School("B", TRUE, 4)>>,
      <<School("A", TRUE, 2), School("A", TRUE, 5), School("B", TRUE, 1)>> }

InitReward == IdleSearch /\ NoCall

CallSchoolReward ==
    \E admitted \in BoundedSeq(RewardNames, MaxAdmitted), schools \in RewardCatalogs :
        /\ fn' = "school_reward"
        /\ arg' = [admitted |-> admitted, schools |-> schools]
        /\ out' = school_reward(admitted, schools)
        /\ UNCHANGED searchVars

NextReward == CallSchoolReward

SpecReward == InitReward /\ [][NextReward]_vars

(* expected_essay_improvement *)

EssayHours == {0, 1, 2, 4}
EssayScores == {800, 900, 950}
EssayPoints == {Point(h, s) : h \in EssayHours, s \in EssayScores}
EssayHistories == BoundedSeq(EssayPoints, 2)
FitOutcomes == {FitRaises, FitYields(RInt(900))}

InitEssay == IdleSearch /\ NoCall

\* histories of three checkpoints, on which curve_fit is tried
EssayLongHistories ==
    { <<Point(0, 10), Point(1, 20), Point(2, 40)>>,
      <<Point(2, 10), Point(4, 30), Point(6, 35)>>,
      <<Point(0, 10), Point(0, 20), Point(0, 30)>>,
      <<Point(1, 30), Point(2, 30), Point(3, 30)>> }

CallExpectedEssayImprovement ==
    \E history \in EssayHistories \cup EssayLongHistories, fit \in FitOutcomes :
        /\ fn' = "expected_essay_improvement"
        /\ arg' = [history |-> history, fit |-> fit]
        /\ out' = expected_essay_improvement(history, fit)
        /\ UNCHANGED searchVars

NextEssay == CallExpectedEssayImprovement

SpecEssay == InitEssay /\ [][NextEssay]_vars

(* available_actions and apply_action, called in sequence on one student *)

ActionHistories ==
    { <<>>,
      <<Point(1, 800)>>,
      <<Point(2, 900)>>,
      <<Point(0, 800), Point(1, 900)>>,
      <<Point(3, 800), Point(1, 900)>> }

LastScore(history) ==
    IF history = <<>> THEN NoScore ELSE history[Len(history)].score

ActionStudents ==
    { [application_scores |-> [n \in AllNames |-> LastScore(h[n])],
       application_score_history |-> h] : h \in [AllNames -> ActionHistories] }

ActionCatalogs ==
    { <<>>,
      <<School("A", TRUE, 2)>>,
      <<School("A", TRUE, 2), School("B", TRUE, 1)>>,
      <<School("B", TRUE, 1), School("A", FALSE, 2)>> }

InitActions ==
    /\ IdleSearch
    /\ \E st \in ActionStudents, schools \in ActionCatalogs :
        /\ fn = "available_actions"
        /\ arg = [student |-> st, schools |-> schools,
                  initial |-> st, worked |-> [n \in AllNames |-> 0],
                  before |-> st, action |-> NoAction]
        /\ out = [actions |-> available_actions(st, schools), hours_spent |-> 0]

CallApplyAction ==
    \E action \in AllNames \cup {STOP_ACTION}, fit \in FitOutcomes :
        /\ fn \in {"available_actions", "apply_action"}
        /\ action \in AllNames =>
              Len(arg.student.application_score_history[action]) < MaxHistory
        /\ LET r == apply_action(arg.student, arg.schools, action, fit)
           IN  /\ fn' = "apply_action"
               /\ arg' = [student |-> r.student, schools |-> r.schools,
                          initial |-> arg.initial,
                          worked |-> IF action = STOP_ACTION THEN arg.worked
                                     ELSE [arg.worked EXCEPT ![action] = @ + 1],
                          before |-> arg.student, action |-> action]
               /\ out' = [actions |-> available_actions(r.student, r.schools),
                          hours_spent |-> r.hours_spent]
        /\ UNCHANGED searchVars

NextActions == CallApplyAction

SpecActions == InitActions /\ [][NextActions]_vars

-----------------------------------------------------------------------------
(* The search: mcts_search and MCTSNode *)

(* calculate_expected_reward *)

Classes == {"never", "random", "always"}

\* student["application_scores"].get(school_name, 700)
EssayScore(st, name) ==
    IF st.application_scores[name] = NoScore THEN RInt(DEFAULT_ESSAY_SCORE)
    ELSE st.application_scores[name]

\* get_probability(name, sat, gpa, essay score), by whether random.random()
\* can fall below it: never (0.0), always (1.0) or random.  Within one search
\* a school has its initial essay score or the one apply_action projected.
Odds(st, name) == admits[name][EssayScore(st, name) = EssayScore(student, name)]

\* lookup[school] of get_probability raises KeyError
UnknownSchool(name) == name \notin colleges

Applying(schools) == {i \in 1..Len(schools) : schools[i].applying}

\* the admitted_schools one sample can build: catalog order, the applying
\* schools whose draw fell below the probability
RECURSIVE AdmittedList(_, _)
AdmittedList(schools, drawn) ==
    IF schools = <<>> THEN <<>>
    ELSE IF Head(schools).applying /\ Head(schools).name \in drawn
         THEN <<Head(schools).name>> \o AdmittedList(Tail(schools), drawn)
         ELSE AdmittedList(Tail(schools), drawn)

Draws(st, schools) ==
    {d \in SUBSET {schools[i].name : i \in Applying(schools)} :
        \A i \in Applying(schools) :
            /\ Odds(st, schools[i].name) = "always" => schools[i].name \in d
            /\ Odds(st, schools[i].name) = "never" => schools[i].name \notin d}

RECURSIVE SumSamples(_, _, _)
SumSamples(samples, k, schools) ==
    IF k = 0 THEN 0
    ELSE school_reward(AdmittedList(schools, samples[k]), schools)
         + SumSamples(samples, k - 1, schools)

\* total_reward / num_samples + COST_PER_HOUR * total_hours_spent, times
\* l_den * num_samples; samples[k] is the set of schools admitted in sample k
calculate_expected_reward(st, schools, total_hours_spent, samples) ==
    SumSamples(samples, NumSamples, schools)
    + COST_PER_HOUR_x10 * total_hours_spent * NumSamples

(* MCTSNode *)

MCTSNode(st, schools, total_hours_spent, parent, action) ==
    [student |-> st,
     schools_data |-> schools,
     total_hours_spent |-> total_hours_spent,
     parent |-> parent,
     action |-> action,
     children |-> <<>>,
     visits |-> 0,
     total_reward |-> 0,
     untried_actions |-> available_actions(st, schools)]

\* a mutant: the length test is >= 1, which STOP alone always satisfies
is_terminal_any_stop(n) ==
    \/ n.action = STOP_ACTION
    \/ Len(available_actions(n.student, n.schools_data)) >= 1

is_terminal(n) ==
    \/ n.action = STOP_ACTION
    \/ Len(available_actions(n.student, n.schools_data)) = 1

\* a mutant: one untried action already counts as fully expanded
is_fully_expanded_off_by_one(n) == Len(n.untried_actions) <= 1

is_fully_expanded(n) == Len(n.untried_actions) = 0

\* exploration_weight * sqrt(log(N) / v) for exploration_weight = 1.41, times
\* UCB_UNIT, rounded down: UCBExploration[N][v]
UCB_UNIT == 100000

UCBExploration ==
    << <<0, 0, 0, 0, 0, 0, 0, 0>>,
       <<117390, 83007, 67775, 58695, 52498, 47924, 44369, 41503>>,
       <<147788, 104502, 85325, 73894, 66093, 60334, 55858, 52251>>,
       <<166014, 117390, 95848, 83007, 74244, 67775, 62747, 58695>>,
       <<178877, 126485, 103275, 89438, 79996, 73026, 67609, 63242>>,
       <<188737, 133457, 108967, 94368, 84406, 77051, 71336, 66728>>,
       <<196689, 139080, 113558, 98344, 87962, 80298, 74341, 69540>>,
       <<203325, 143773, 117390, 101662, 90930, 83007, 76849, 71886>> >>

\* the ucb_value of child c is greater than that of child e, under a node with
\* N visits and exploitation_weight = 1.0; float("inf") for a child without
\* visits
\* a mutant: the exploration term is left out of ucb_value
UCBGreater_no_exploration(N, c, e) ==
    IF e.visits = 0 THEN FALSE
    ELSE IF c.visits = 0 THEN TRUE
    ELSE c.total_reward * e.visits > e.total_reward * c.visits

UCBGreater(N, c, e) ==
    IF e.visits = 0 THEN FALSE
    ELSE IF c.visits = 0 THEN TRUE
    ELSE c.total_reward * e.visits * UCB_UNIT
           + UCBExploration[N][c.visits] * c.visits * e.visits * l_den * NumSamples
         > e.total_reward * c.visits * UCB_UNIT
           + UCBExploration[N][e.visits] * c.visits * e.visits * l_den * NumSamples

\* max(seq, key): the scan keeps the first element until a later one has a
\* greater key; greater[a][b] is key(a) > key(b)
RECURSIVE MaxFrom(_, _, _, _)
MaxFrom(seq, k, best, greater) ==
    IF k > Len(seq) THEN best
    ELSE MaxFrom(seq, k + 1, IF greater[seq[k]][best] THEN seq[k] ELSE best, greater)

\* math.log(self.visits) raises for 0 visits, max() for no children
best_child_raises(t, i) ==
    \/ t[i].children = <<>>
    \/ /\ t[i].visits = 0
       /\ \E k \in 1..Len(t[i].children) : t[t[i].children[k]].visits # 0

best_child(t, i) ==
    LET ids == Range(t[i].children)
        greater == [a \in ids |-> [b \in ids |-> UCBGreater(t[i].visits, t[a], t[b])]]
    IN  MaxFrom(t[i].children, 2, t[i].children[1], greater)

\* a mutant: apply_action works on the node's own student instead of a copy,
\* so the node's snapshot becomes the child's
expand_in_place(t, i, fit) ==
    LET n == t[i]
        action == n.untried_actions[Len(n.untried_actions)]
        r == apply_action(n.student, n.schools_data, action, fit)
        child_node == MCTSNode(r.student, r.schools,
                               n.total_hours_spent + r.hours_spent, i, action)
    IN  Append([t EXCEPT ![i].untried_actions = SubSeq(@, 1, Len(@) - 1),
                         ![i].children = Append(@, Len(t) + 1),
                         ![i].student = r.student],
               child_node)

\* a mutant: the child gets the parent's total_hours_spent, hours_spent dropped
expand_free(t, i, fit) ==
    LET n == t[i]
        action == n.untried_actions[Len(n.untried_actions)]
        r == apply_action(n.student, n.schools_data, action, fit)
        child_node == MCTSNode(r.student, r.schools, n.total_hours_spent, i, action)
    IN  Append([t EXCEPT ![i].untried_actions = SubSeq(@, 1, Len(@) - 1),
                         ![i].children = Append(@, Len(t) + 1)],
               child_node)

\* a mutant: the action is read from untried_actions but not removed
expand_keeps_untried(t, i, fit) ==
    LET n == t[i]
        action == n.untried_actions[Len(n.untried_actions)]
        r == apply_action(n.student, n.schools_data, action, fit)
        child_node == MCTSNode(r.student, r.schools,
                               n.total_hours_spent + r.hours_spent, i, action)
    IN  Append([t EXCEPT ![i].children = Append(@, Len(t) + 1)], child_node)

\* a mutant: pop(0), the first untried action instead of the last
expand_fifo(t, i, fit) ==
    LET n == t[i]
        action == n.untried_actions[1]
        r == apply_action(n.student, n.schools_data, action, fit)
        child_node == MCTSNode(r.student, r.schools,
                               n.total_hours_spent + r.hours_spent, i, action)
    IN  Append([t EXCEPT ![i].untried_actions = Tail(@),
                         ![i].children = Append(@, Len(t) + 1)],
               child_node)

\* the tree after t[i].expand(); the child is its last node
expand(t, i, fit) ==
    LET n == t[i]
        action == n.untried_actions[Len(n.untried_actions)]
        r == apply_action(n.student, n.schools_data, action, fit)
        child_node == MCTSNode(r.student, r.schools,
                               n.total_hours_spent + r.hours_spent, i, action)
    IN  Append([t EXCEPT ![i].untried_actions = SubSeq(@, 1, Len(@) - 1),
                         ![i].children = Append(@, Len(t) + 1)],
               child_node)

\* a mutant: the walk stops below the root
RECURSIVE backpropagate_below_root(_, _, _)
backpropagate_below_root(t, i, r) ==
    IF i = 0 \/ t[i].parent = 0 THEN t
    ELSE backpropagate_below_root(
            [t EXCEPT ![i].visits = @ + 1, ![i].total_reward = @ + r],
            t[i].parent, r)

\* a mutant: only the node the rollout started at is updated
backpropagate_start_only(t, i, r) ==
    IF i = 0 THEN t
    ELSE [t EXCEPT ![i].visits = @ + 1, ![i].total_reward = @ + r]

\* a mutant: the reward is added at the start node only, the visits all the
\* way up
RECURSIVE backpropagate_reward_at_start(_, _, _)
backpropagate_reward_at_start(t, i, r) ==
    IF i = 0 THEN t
    ELSE backpropagate_reward_at_start(
            [t EXCEPT ![i].visits = @ + 1, ![i].total_reward = @ + r],
            t[i].parent, 0)

\* a mutant: the walk starts at the parent of the node
RECURSIVE backpropagate_above_start(_, _, _)
backpropagate_above_start(t, i, r) ==
    IF i = 0 \/ t[i].parent = 0 THEN t
    ELSE backpropagate_above_start(
            [t EXCEPT ![t[i].parent].visits = @ + 1,
                      ![t[i].parent].total_reward = @ + r],
            t[i].parent, r)

\* the tree after t[i].backpropagate(r)
RECURSIVE backpropagate(_, _, _)
backpropagate(t, i, r) ==
    IF i = 0 THEN t
    ELSE backpropagate([t EXCEPT ![i].visits = @ + 1, ![i].total_reward = @ + r],
                       t[i].parent, r)

\* the key of the final max: total_reward / visits, 0 without visits
AverageGreater(c, e) ==
    LET cr == IF c.visits > 0 THEN c.total_reward ELSE 0
        cv == IF c.visits > 0 THEN c.visits ELSE 1
        er == IF e.visits > 0 THEN e.total_reward ELSE 0
        ev == IF e.visits > 0 THEN e.visits ELSE 1
    IN  cr * ev > er * cv

\* a mutant: the root child with the most visits
best_action_most_visited(t) ==
    IF t[1].children = <<>> THEN STOP_ACTION
    ELSE LET ids == Range(t[1].children)
             greater == [a \in ids |-> [b \in ids |-> t[a].visits > t[b].visits]]
         IN  t[MaxFrom(t[1].children, 2, t[1].children[1], greater)].action

\* lines 296-312 of mcts_search: the action it returns
best_action(t) ==
    IF t[1].children = <<>> THEN STOP_ACTION
    ELSE LET ids == Range(t[1].children)
             greater == [a \in ids |-> [b \in ids |-> AverageGreater(t[a], t[b])]]
         IN  t[MaxFrom(t[1].children, 2, t[1].children[1], greater)].action


(* best_child, called directly on a node and its children *)

MaxChildren == 3    \* most children of a node best_child is called on directly

\* visits and total_reward of a child: not visited, or visited once or twice
\* with rewards the search can accumulate
ChildStats ==
    {[visits |-> 0, total_reward |-> 0]}
    \cup {[visits |-> v, total_reward |-> r] : v \in 1..2, r \in {-20, 0, 10, 20, 30}}

RECURSIVE SumVisits(_)
SumVisits(kids) ==
    IF kids = <<>> THEN 0 ELSE Head(kids).visits + SumVisits(Tail(kids))

\* a node with N visits and its children, as nodes 1 and 2..Len(kids) + 1
BestChildTree(N, kids) ==
    <<[visits |-> N, total_reward |-> 0,
       children |-> [k \in 1..Len(kids) |-> k + 1]]>>
    \o [k \in 1..Len(kids) |->
          [visits |-> kids[k].visits, total_reward |-> kids[k].total_reward,
           children |-> <<>>]]

InitBestChild == IdleSearch /\ NoCall

\* node.best_child() on a node whose visits are at least those of its children
CallBestChild ==
    \E kids \in BoundedSeq(ChildStats, MaxChildren) :
        \E N \in {SumVisits(kids), SumVisits(kids) + 1} :
            /\ fn = "none"
            /\ kids # <<>>
            /\ N <= Len(UCBExploration)
            /\ fn' = "best_child"
            /\ arg' = [visits |-> N, children |-> kids]
            /\ out' = best_child(BestChildTree(N, kids), 1) - 1
            /\ UNCHANGED searchVars

NextBestChild == CallBestChild

SpecBestChild == InitBestChild /\ [][NextBestChild]_vars

(* mcts_search *)

Profile(same, projected) == [w \in BOOLEAN |-> IF w THEN same ELSE projected]

\* the class of a school's admission odds at its initial essay score and at
\* the projected one, which is the higher score for every history below
OddsProfiles ==
    { Profile("never", "never"), Profile("random", "random"),
      Profile("always", "always"), Profile("never", "always") }

Never == Profile("never", "never")

StudentOf(h) ==
    [application_scores |-> [n \in AllNames |-> LastScore(h[n])],
     application_score_history |-> h]

Histories(a, b) == [n \in AllNames |-> IF n = "A" THEN a ELSE b]

SearchInput(schools, h, odds, known) ==
    [schools |-> schools, student |-> StudentOf(h), admits |-> odds,
     colleges |-> known]

\* the calls of mcts_search the model makes: no school; one school; two
\* schools of which one is not applying; two schools that both are
SearchInputs ==
    { SearchInput(<<>>, Histories(<<>>, <<>>), Histories(Never, Never), AllNames) }
    \cup
    { SearchInput(<<School("A", TRUE, 3)>>, Histories(h, <<>>),
                  Histories(p, Never), AllNames) :
        h \in {<<>>, <<Point(1, 800)>>, <<Point(2, 900)>>}, p \in OddsProfiles }
    \cup
    { SearchInput(<<School("A", TRUE, 2), School("B", FALSE, 3)>>,
                  Histories(<<>>, h), Histories(p, Never), AllNames) :
        h \in {<<>>, <<Point(1, 800)>>},
        p \in {Profile("random", "random"), Profile("never", "always")} }
    \cup
    { SearchInput(<<School("A", TRUE, 3), School("B", TRUE, 1)>>,
                  Histories(h[1], h[2]), Histories(p[1], p[2]), known) :
        h \in { <<<<>>, <<>>>>, <<<<Point(1, 800)>>, <<>>>>,
                <<<<>>, <<Point(2, 900)>>>> },
        p \in { <<Profile("random", "random"), Profile("never", "never")>>,
                <<Profile("never", "always"), Profile("always", "always")>>,
                <<Profile("always", "always"), Profile("never", "never")>> },
        known \in {AllNames, AllNames \ {"B"}} }

Times == {0, 1}

\* the clock readings mcts_search can get next: time does not run backwards,
\* and after MaxIter iterations the deadline has passed
Readings ==
    {t \in Times : t >= now /\ (iteration >= MaxIter => t >= time_limit)}

Root == 1

NoRollout == [student |-> <<>>, schools |-> <<>>, hours |-> 0,
              applied |-> <<>>, caller |-> "none"]

\* a mutant: current_hours starts at 0, not at the node's total_hours_spent
RolloutOf_from_zero(t, i, caller) ==
    [student |-> copy_student(t[i].student),
     schools |-> copy_schools(t[i].schools_data),
     hours |-> 0,
     applied |-> <<>>,
     caller |-> caller]

\* the locals of t[i].rollout() on entry
RolloutOf(t, i, caller) ==
    [student |-> copy_student(t[i].student),
     schools |-> copy_schools(t[i].schools_data),
     hours |-> t[i].total_hours_spent,
     applied |-> <<>>,
     caller |-> caller]

\* line 254-256: root = MCTSNode(student, schools_data), start_time, iteration
Init ==
    /\ NoCall
    /\ \E input \in SearchInputs :
        /\ schools_data = input.schools
        /\ student = input.student
        /\ admits = input.admits
        /\ colleges = input.colleges
    /\ time_limit \in Times
    /\ now = 0
    /\ iteration = 0
    /\ tree = <<MCTSNode(student, schools_data, 0, 0, NoAction)>>
    /\ pc = "first_layer"
    /\ node = 0
    /\ roll = NoRollout
    /\ reward = 0
    /\ result = NoAction
    /\ starts = <<>>
    /\ rollouts = 0

\* lines 260-262: the first loop's test, node = root.expand(), node.rollout()
FirstLayerExpand ==
    /\ pc = "first_layer"
    /\ ~is_fully_expanded(tree[Root])
    /\ \E fit \in FitOutcomes :
        /\ tree' = expand(tree, Root, fit)
        /\ node' = Len(tree')
        /\ roll' = RolloutOf(tree', node', "first_layer")
    /\ pc' = "rollout"
    /\ UNCHANGED <<schools_data, student, colleges, admits, time_limit, now,
                   iteration, reward, result, starts, rollouts, callVars>>

\* line 260: the first loop ends with the root fully expanded
FirstLayerDone ==
    /\ pc = "first_layer"
    /\ is_fully_expanded(tree[Root])
    /\ pc' = "search"
    /\ UNCHANGED <<schools_data, student, colleges, admits, time_limit, now,
                   iteration, tree, node, roll, reward, result, starts, rollouts,
                   callVars>>

\* lines 266-268: the first loop's deadline test, after the iteration
FirstLayerClock ==
    /\ pc = "first_layer_clock"
    /\ \E t \in Readings :
        /\ now' = t
        /\ pc' = IF t >= time_limit THEN "search" ELSE "first_layer"
    /\ UNCHANGED <<schools_data, student, colleges, admits, time_limit,
                   iteration, tree, node, roll, reward, result, starts, rollouts,
                   callVars>>

\* lines 275-276: the second loop's deadline test, node = root
SearchClock ==
    /\ pc = "search"
    /\ \E t \in Readings :
        /\ now' = t
        /\ IF t < time_limit
           THEN pc' = "select" /\ node' = Root
           ELSE pc' = "finish" /\ node' = node
    /\ UNCHANGED <<schools_data, student, colleges, admits, time_limit,
                   iteration, tree, roll, reward, result, starts, rollouts,
                   callVars>>

\* lines 279-280: one step of the selection loop
Select ==
    /\ pc = "select"
    /\ ~is_terminal(tree[node]) /\ is_fully_expanded(tree[node])
    /\ IF best_child_raises(tree, node)
       THEN pc' = "raised" /\ node' = node
       ELSE pc' = "select" /\ node' = best_child(tree, node)
    /\ UNCHANGED <<schools_data, student, colleges, admits, time_limit, now,
                   iteration, tree, roll, reward, result, starts, rollouts,
                   callVars>>

\* lines 283-287: selection has ended on a node that is expanded, and the
\* rollout starts from the new child
SearchExpand ==
    /\ pc = "select"
    /\ ~(~is_terminal(tree[node]) /\ is_fully_expanded(tree[node]))
    /\ ~is_terminal(tree[node]) /\ ~is_fully_expanded(tree[node])
    /\ \E fit \in FitOutcomes :
        /\ tree' = expand(tree, node, fit)
        /\ node' = Len(tree')
        /\ roll' = RolloutOf(tree', node', "search")
    /\ pc' = "rollout"
    /\ UNCHANGED <<schools_data, student, colleges, admits, time_limit, now,
                   iteration, reward, result, starts, rollouts, callVars>>

\* lines 283-287: selection has ended on a node that is not expanded, and the
\* rollout starts from that node
SearchRollout ==
    /\ pc = "select"
    /\ ~(~is_terminal(tree[node]) /\ is_fully_expanded(tree[node]))
    /\ ~(~is_terminal(tree[node]) /\ ~is_fully_expanded(tree[node]))
    /\ roll' = RolloutOf(tree, node, "search")
    /\ pc' = "rollout"
    /\ UNCHANGED <<schools_data, student, colleges, admits, time_limit, now,
                   iteration, tree, node, reward, result, starts, rollouts,
                   callVars>>

\* lines 203-205: only STOP is left
RolloutEnd ==
    /\ pc = "rollout"
    /\ available_actions(roll.student, roll.schools) = <<STOP_ACTION>>
    /\ pc' = "evaluate"
    /\ UNCHANGED <<schools_data, student, colleges, admits, time_limit, now,
                   iteration, tree, node, roll, reward, result, starts, rollouts,
                   callVars>>

\* lines 207-208: random.random() < 0.3
RolloutEarlyStop ==
    /\ pc = "rollout"
    /\ available_actions(roll.student, roll.schools) # <<STOP_ACTION>>
    /\ STOP_ACTION \in Range(available_actions(roll.student, roll.schools))
    /\ pc' = "evaluate"
    /\ UNCHANGED <<schools_data, student, colleges, admits, time_limit, now,
                   iteration, tree, node, roll, reward, result, starts, rollouts,
                   callVars>>

\* lines 210-219: random.choice among the actions other than STOP, applied
RolloutApply ==
    /\ pc = "rollout"
    /\ available_actions(roll.student, roll.schools) # <<STOP_ACTION>>
    /\ \E action \in Range(available_actions(roll.student, roll.schools))
                        \ {STOP_ACTION},
          fit \in FitOutcomes :
        LET r == apply_action(roll.student, roll.schools, action, fit)
        IN  roll' = [roll EXCEPT !.student = r.student,
                                 !.schools = r.schools,
                                 !.hours = @ + r.hours_spent,
                                 !.applied = Append(@, action)]
    /\ pc' = "rollout"
    /\ UNCHANGED <<schools_data, student, colleges, admits, time_limit, now,
                   iteration, tree, node, reward, result, starts, rollouts,
                   callVars>>

\* lines 221-223 and 262/287: calculate_expected_reward returns the reward
Evaluate ==
    /\ pc = "evaluate"
    /\ \A i \in Applying(roll.schools) : ~UnknownSchool(roll.schools[i].name)
    /\ \E samples \in [1..NumSamples -> Draws(roll.student, roll.schools)] :
        reward' = calculate_expected_reward(roll.student, roll.schools,
                                            roll.hours, samples)
    /\ rollouts' = rollouts + 1
    /\ pc' = "backpropagate"
    /\ UNCHANGED <<schools_data, student, colleges, admits, time_limit, now,
                   iteration, tree, node, roll, result, starts, callVars>>

\* get_probability raises for a school that schools.json does not have
EvaluateRaises ==
    /\ pc = "evaluate"
    /\ \E i \in Applying(roll.schools) : UnknownSchool(roll.schools[i].name)
    /\ pc' = "raised"
    /\ UNCHANGED <<schools_data, student, colleges, admits, time_limit, now,
                   iteration, tree, node, roll, reward, result, starts, rollouts,
                   callVars>>

\* lines 263-264 and 290-291: node.backpropagate(reward), iteration += 1
Backpropagate ==
    /\ pc = "backpropagate"
    /\ tree' = backpropagate(tree, node, reward)
    /\ starts' = Append(starts, node)
    /\ iteration' = iteration + 1
    /\ pc' = IF roll.caller = "first_layer" THEN "first_layer_clock" ELSE "search"
    /\ UNCHANGED <<schools_data, student, colleges, admits, time_limit, now,
                   node, roll, reward, result, rollouts, callVars>>

\* lines 293-312: the root child with the best average, or STOP
Finish ==
    /\ pc = "finish"
    /\ result' = best_action(tree)
    /\ pc' = "done"
    /\ UNCHANGED <<schools_data, student, colleges, admits, time_limit, now,
                   iteration, tree, node, roll, reward, starts, rollouts,
                   callVars>>

Next ==
    \/ FirstLayerExpand
    \/ FirstLayerDone
    \/ FirstLayerClock
    \/ SearchClock
    \/ Select
    \/ SearchExpand
    \/ SearchRollout
    \/ RolloutEnd
    \/ RolloutEarlyStop
    \/ RolloutApply
    \/ Evaluate
    \/ EvaluateRaises
    \/ Backpropagate
    \/ Finish

Spec == Init /\ [][Next]_vars

-----------------------------------------------------------------------------
(* Properties *)

RECURSIVE SumOver(_, _)
SumOver(S, f) ==
    IF S = {} THEN 0
    ELSE LET x == CHOOSE y \in S : TRUE IN f[x] + SumOver(S \ {x}, f)

\* positions of the admitted list whose name has a catalog entry, and the
\* desirability of the first entry of that name
ResolvedPositions(admitted, schools) ==
    {p \in 1..Len(admitted) : \E i \in 1..Len(schools) : schools[i].name = admitted[p]}

FirstEntry(name, schools) ==
    schools[CHOOSE i \in 1..Len(schools) :
                /\ schools[i].name = name
                /\ \A j \in 1..(i - 1) : schools[j].name # name]

\* the checkpoints of a school that is on offer all have less than 2 hours
OnOffer(st, schools, name) ==
    \E i \in 1..Len(schools) :
        /\ schools[i].name = name
        /\ schools[i].applying
        /\ \A k \in 1..Len(st.application_score_history[name]) :
              st.application_score_history[name][k].hours < 2

\* C1: the action mcts_search returns is STOP or the name of a school that is
\* applying and has less than 2 hours in the student it was called with.
C1_ReturnsAvailable ==
    pc = "done" => result = STOP_ACTION \/ OnOffer(student, schools_data, result)

\* a school is returned from a catalog that also has a school not on offer
C1_Witness ==
    /\ pc = "done"
    /\ result # STOP_ACTION
    /\ \E i \in 1..Len(schools_data) :
          ~OnOffer(student, schools_data, schools_data[i].name)

\* the average reward of c is at most that of e, 0 standing for no visits
C2_AverageAtMost(c, e) ==
    IF c.visits = 0 THEN (e.visits = 0 \/ 0 <= e.total_reward)
    ELSE IF e.visits = 0 THEN c.total_reward <= 0
    ELSE c.total_reward * e.visits <= e.total_reward * c.visits

\* C2: when the root has children at the end, mcts_search returns the action
\* of a root child whose average reward is the largest among them.
C2_BestAverage ==
    (pc = "done" /\ tree[Root].children # <<>>) =>
        \E k \in Range(tree[Root].children) :
            /\ tree[k].action = result
            /\ \A j \in Range(tree[Root].children) :
                  C2_AverageAtMost(tree[j], tree[k])

\* the child returned is not the first one, and its average beats another's
C2_Witness ==
    /\ pc = "done"
    /\ Len(tree[Root].children) >= 2
    /\ result # tree[tree[Root].children[1]].action
    /\ \E j \in Range(tree[Root].children) :
          /\ tree[j].action = result
          /\ ~C2_AverageAtMost(tree[j], tree[tree[Root].children[1]])

\* no school's admission is left to chance: every terminal reward is fixed
Deterministic ==
    \A i \in Applying(schools_data) :
        \A w \in BOOLEAN : admits[schools_data[i].name][w] # "random"

\* the reward of the state reached by `action` from the root's state, when
\* Deterministic
TerminalReward(action) ==
    LET r == apply_action(student, schools_data, action, FitRaises)
        draw == CHOOSE d \in Draws(r.student, r.schools) : TRUE
    IN  calculate_expected_reward(r.student, r.schools, r.hours_spent,
                                  [k \in 1..NumSamples |-> draw])

\* C3 (as claimed): with one school on offer besides STOP, fixed terminal
\* rewards and both root children expanded, mcts_search returns the action
\* whose terminal reward is strictly higher, whatever the rollouts chose.
C3_ReturnsBetterAction ==
    LET actions == available_actions(student, schools_data)
    IN  (/\ pc = "done"
         /\ Len(actions) = 2
         /\ Deterministic
         /\ Len(tree[Root].children) = 2)
        => /\ TerminalReward(actions[1]) > TerminalReward(STOP_ACTION)
                => result = actions[1]
           /\ TerminalReward(STOP_ACTION) > TerminalReward(actions[1])
                => result = STOP_ACTION

\* C4 (as claimed): on a root that has only STOP on offer, no child node is
\* ever created and mcts_search returns STOP.
C4_NoExpansionOnlyStop ==
    available_actions(student, schools_data) = <<STOP_ACTION>> =>
        /\ Len(tree) = 1
        /\ tree[Root].children = <<>>
        /\ pc = "done" => result = STOP_ACTION

\* C5 (as claimed): with the deadline reached before any expansion
\* (time_limit = 0), nothing is expanded, the root ends without children and
\* the result is STOP.
C5_NoExpansionPastDeadline ==
    (pc # "idle" /\ time_limit = 0) =>
        /\ Len(tree) = 1
        /\ tree[Root].children = <<>>
        /\ pc = "done" => result = STOP_ACTION

\* node i is node j or one of its ancestors
RECURSIVE OnPathToRoot(_, _)
OnPathToRoot(i, j) ==
    IF j = 0 THEN FALSE
    ELSE IF i = j THEN TRUE
    ELSE OnPathToRoot(i, tree[j].parent)

\* C7: when mcts_search has completed, the root's visits are the number of
\* rollouts executed; and at every point each node's visits are the number of
\* backpropagate calls that started at it or below it.
C7_VisitsCountRollouts ==
    /\ pc = "done" => tree[Root].visits = rollouts
    /\ pc \notin {"idle"} =>
        \A i \in 1..Len(tree) :
            tree[i].visits =
                Cardinality({k \in 1..Len(starts) : OnPathToRoot(i, starts[k])})

\* a completed search with a node below a root child, both visited
C7_Witness ==
    /\ pc = "done"
    /\ rollouts >= 4
    /\ \E i \in 1..Len(tree) :
          /\ tree[i].parent > Root
          /\ tree[i].visits >= 1
          /\ tree[tree[i].parent].visits >= 2

\* C6 (as claimed): a school that starts with an empty history is still
\* offered after being worked on once, and whenever it is no longer offered it
\* has been worked on at least twice and has at least 4 cumulative hours.
C6_StaysAfterOnce ==
    fn = "apply_action" =>
        \A i \in 1..Len(arg.schools) :
            LET name == arg.schools[i].name
            IN  (/\ arg.schools[i].applying
                 /\ arg.initial.application_score_history[name] = <<>>
                 /\ arg.worked[name] >= 1)
                => /\ arg.worked[name] = 1 => name \in Range(out.actions)
                   /\ name \notin Range(out.actions) =>
                        /\ arg.worked[name] >= 2
                        /\ get_total_hours(arg.student, name) >= 4

\* what the code does instead: worked on once, the school has 2 hours and is
\* no longer offered
C6_GoneAfterOnce ==
    /\ fn = "apply_action"
    /\ \E i \in 1..Len(arg.schools) :
        LET name == arg.schools[i].name
        IN  /\ arg.schools[i].applying
            /\ arg.initial.application_score_history[name] = <<>>
            /\ arg.worked[name] = 1
            /\ get_total_hours(arg.student, name) = 2
            /\ name \notin Range(out.actions)

\* C8: available_actions returns, in catalog order, the names of the schools
\* that are applying and have less than 2 cumulative hours (largest hours of
\* the history, 0 without one), then STOP as its last element.
C8_Eligible(st, schools) ==
    {i \in 1..Len(schools) :
        /\ schools[i].applying
        /\ LET history == st.application_score_history[schools[i].name]
           IN  \A k \in 1..Len(history) : history[k].hours < 2}

C9_SchoolReward ==
    fn = "school_reward" =>
        LET P == ResolvedPositions(arg.admitted, arg.schools)
            D == [p \in P |-> FirstEntry(arg.admitted[p], arg.schools).desireability]
        IN  /\ arg.admitted = <<>> => out = 0
            /\ P = {} => out = 0
            /\ P # {} =>
                \E top \in P :
                    /\ \A q \in P : D[q] <= D[top]
                    /\ out = l_den * D[top] + SumOver(P \ {top}, D)

\* three admitted names: one without an entry, two with, the larger one last
C9_Witness ==
    /\ fn = "school_reward"
    /\ Len(arg.admitted) = 3
    /\ arg.admitted[1] = "X"
    /\ Cardinality(ResolvedPositions(arg.admitted, arg.schools)) = 2
    /\ FirstEntry(arg.admitted[2], arg.schools).desireability
         < FirstEntry(arg.admitted[3], arg.schools).desireability
    /\ out > 0

\* C10: expected_essay_improvement is 800 for no checkpoint, score + 14 for
\* one, and s1 + 2 * (s1 - s0) / max(1e-6, h1 - h0) for two; [(2,900)] gives
\* 914 and [(2,900),(4,950)] gives 1000.
C10_Projection ==
    fn = "expected_essay_improvement" =>
        LET h == arg.history
        IN  /\ Len(h) = 0 => out = RInt(800)
            /\ Len(h) = 1 => out.d = h[1].score.d /\ out.n = h[1].score.n + 14 * out.d
            /\ Len(h) = 2 =>
                LET dh == h[2].hours - h[1].hours
                    s0 == h[1].score.n
                    s1 == h[2].score.n
                IN  IF dh >= 1
                    THEN out.n * dh = out.d * (s1 * dh + 2 * (s1 - s0))
                    ELSE out.n = out.d * (s1 + 2 * (s1 - s0) * 1000000)
            /\ h = <<Point(2, 900)>> => out = RInt(914)
            /\ h = <<Point(2, 900), Point(4, 950)>> => out = RInt(1000)

C10_Witness ==
    /\ fn = "expected_essay_improvement"
    /\ arg.history = <<Point(2, 900), Point(4, 950)>>
    /\ out = RInt(1000)

\* C11 (as claimed): a node is terminal exactly when its action is STOP or
\* STOP is the only action available in its state, and no terminal node is
\* ever expanded: every terminal node has an empty list of children.
C11_TerminalNeverExpanded ==
    \A i \in 1..Len(tree) :
        /\ is_terminal(tree[i]) <=>
              \/ tree[i].action = STOP_ACTION
              \/ available_actions(tree[i].student, tree[i].schools_data)
                   = <<STOP_ACTION>>
        /\ is_terminal(tree[i]) => tree[i].children = <<>>

\* what the code does keep: a terminal node other than the root has no child
C11_TerminalBelowRootNeverExpanded ==
    \A i \in 1..Len(tree) :
        (i # Root /\ is_terminal(tree[i])) => tree[i].children = <<>>

\* C12 (as claimed): whenever a rollout's end state is evaluated, every school
\* name handed to get_probability (the applying schools of the catalog given
\* to mcts_search) is a name get_probability can look up, so the lookup error
\* is never raised.
C12_LookupNeverFails ==
    pc \in {"evaluate", "raised"} =>
        /\ pc # "raised"
        /\ \A i \in Applying(roll.schools) : ~UnknownSchool(roll.schools[i].name)

\* the search is between two iterations: no expansion, rollout or
\* backpropagation is under way
IterationBoundary ==
    pc \in {"first_layer", "first_layer_clock", "search", "finish", "done"}

\* the rollouts launched on node i itself
LaunchedOn(i) == Cardinality({k \in 1..Len(starts) : starts[k] = i})

\* C13: between iterations every node's visits are the sum of its children's
\* visits plus the number of rollouts launched on the node itself.
C13_VisitsAreChildrenPlusOwn ==
    IterationBoundary =>
        \A i \in 1..Len(tree) :
            tree[i].visits =
                SumOver(Range(tree[i].children),
                        [k \in Range(tree[i].children) |-> tree[k].visits])
                + LaunchedOn(i)

\* a node below the root that has a visited child and a rollout of its own
C13_Witness ==
    /\ pc = "done"
    /\ \E i \in 1..Len(tree) :
          /\ i # Root
          /\ LaunchedOn(i) >= 1
          /\ \E k \in Range(tree[i].children) : tree[k].visits >= 1

\* C14: backpropagate(reward) on node n adds 1 to visits and reward to
\* total_reward on n and on each of its ancestors up to the root, and leaves
\* visits and total_reward of every other node as they were.
C14_BackpropagateFrame ==
    [][pc = "backpropagate" =>
          /\ Len(tree') = Len(tree)
          /\ \A i \in 1..Len(tree) :
                IF OnPathToRoot(i, node)
                THEN /\ tree'[i].visits = tree[i].visits + 1
                     /\ tree'[i].total_reward = tree[i].total_reward + reward
                ELSE /\ tree'[i].visits = tree[i].visits
                     /\ tree'[i].total_reward = tree[i].total_reward]_vars

\* a reward other than 0 has just been backpropagated from a node two levels
\* below the root, past visited nodes that are not on its path
C14_Witness ==
    /\ pc = "search"
    /\ starts # <<>>
    /\ reward # 0
    /\ LET s == starts[Len(starts)]
       IN  /\ tree[s].parent > Root
           /\ tree[s].total_reward = reward
           /\ \E j \in 1..Len(tree) : ~OnPathToRoot(j, s) /\ tree[j].visits >= 1

\* C15 (as claimed): every terminal node of the tree, a child created by STOP
\* included, has only STOP in its action set: in the untried_actions it was
\* constructed with, which are the available actions of its state.
C15_TerminalOnlyStop ==
    \A i \in 1..Len(tree) :
        is_terminal(tree[i]) =>
            /\ available_actions(tree[i].student, tree[i].schools_data)
                 = <<STOP_ACTION>>
            /\ \A k \in 1..Len(tree[i].untried_actions) :
                  tree[i].untried_actions[k] = STOP_ACTION

\* the largest hours of a history, 0 for an empty one
C16_PriorHours(history) ==
    IF history = <<>> THEN 0
    ELSE CHOOSE h \in {history[k].hours : k \in 1..Len(history)} :
            \A k \in 1..Len(history) : history[k].hours <= h

\* C16: apply_action with a school name returns 2 hours spent and a student
\* whose history for that school is the old one plus one checkpoint, with the
\* old largest hours (0 if none) plus 2 and the score projected from the old
\* history; application_scores of the school is that score; the other
\* schools' histories and scores are as before; the new hours are greater
\* than every earlier hours of the school.
C16_ApplySchool ==
    (fn = "apply_action" /\ arg.action # STOP_ACTION) =>
        LET a == arg.action
            old == arg.before.application_score_history[a]
            new == arg.student.application_score_history[a]
            last == new[Len(new)]
        IN  /\ out.hours_spent = 2
            /\ Len(new) = Len(old) + 1
            /\ SubSeq(new, 1, Len(old)) = old
            /\ last.hours = C16_PriorHours(old) + 2
            /\ \E fit \in FitOutcomes :
                  last.score = expected_essay_improvement(old, fit)
            /\ arg.student.application_scores[a] = last.score
            /\ \A n \in AllNames \ {a} :
                  /\ arg.student.application_score_history[n]
                       = arg.before.application_score_history[n]
                  /\ arg.student.application_scores[n]
                       = arg.before.application_scores[n]
            /\ \A k \in 1..Len(old) : old[k].hours < last.hours

\* a school with one checkpoint has been worked on, next to a school that has
\* a history and a score of its own
C16_Witness ==
    /\ fn = "apply_action"
    /\ arg.action \in AllNames
    /\ Len(arg.before.application_score_history[arg.action]) = 1
    /\ arg.student.application_scores[arg.action]
         # arg.before.application_scores[arg.action]
    /\ \E n \in AllNames \ {arg.action} :
          /\ arg.before.application_score_history[n] # <<>>
          /\ arg.before.application_scores[n] # NoScore

\* C17: apply_action with STOP returns the student and the catalog it was
\* given and 0 hours spent, so a node created by STOP has the state and the
\* total_hours_spent of its parent.
C17_StopChangesNothing ==
    \A i \in 1..Len(tree) :
        /\ \A fit \in FitOutcomes :
              apply_action(tree[i].student, tree[i].schools_data, STOP_ACTION, fit)
                = [student |-> tree[i].student, schools |-> tree[i].schools_data,
                   hours_spent |-> 0]
        /\ tree[i].action = STOP_ACTION =>
              /\ tree[i].student = tree[tree[i].parent].student
              /\ tree[i].schools_data = tree[tree[i].parent].schools_data
              /\ tree[i].total_hours_spent = tree[tree[i].parent].total_hours_spent

\* a STOP child under a node that has 2 hours and a changed student
C17_Witness ==
    \E i \in 1..Len(tree) :
        /\ tree[i].action = STOP_ACTION
        /\ tree[i].parent > Root
        /\ tree[i].total_hours_spent = 2
        /\ tree[i].student # student

\* C18: no step of the search changes the student, the catalog, the hours,
\* the parent or the action of a node that exists, nor the student and the
\* catalog mcts_search was called with; of an existing node only visits,
\* total_reward, children and untried_actions change.
C18_SnapshotsFrozen ==
    [][/\ student' = student
       /\ schools_data' = schools_data
       /\ Len(tree') >= Len(tree)
       /\ \A i \in 1..Len(tree) :
             /\ tree'[i].student = tree[i].student
             /\ tree'[i].schools_data = tree[i].schools_data
             /\ tree'[i].total_hours_spent = tree[i].total_hours_spent
             /\ tree'[i].parent = tree[i].parent
             /\ tree'[i].action = tree[i].action]_vars

\* a finished search in which nodes were expanded with school actions and a
\* rollout applied school actions to its own copy
C18_Witness ==
    /\ pc = "done"
    /\ Len(tree) >= 3
    /\ tree[Root].student = student
    /\ \E i \in 1..Len(tree) : tree[i].student # student
    /\ roll.applied # <<>>
    /\ roll.student # tree[node].student

\* the number of actions other than STOP on the path from the root to node i
RECURSIVE C19_NonStopOnPath(_)
C19_NonStopOnPath(i) ==
    IF tree[i].parent = 0 THEN 0
    ELSE (IF tree[i].action = STOP_ACTION THEN 0 ELSE 1)
         + C19_NonStopOnPath(tree[i].parent)

\* seq without its k-th element
C19_Without(seq, k) == SubSeq(seq, 1, k - 1) \o SubSeq(seq, k + 1, Len(seq))

\* C19: expand takes exactly one action out of the node's untried_actions and
\* appends exactly one child, whose action is that action and whose
\* total_hours_spent is the node's plus the hours the action spent (2 for a
\* school, 0 for STOP); and every node's total_hours_spent is 2 times the
\* number of actions other than STOP on its path from the root.
C19_ExpandAddsOneChild ==
    /\ [](\A i \in 1..Len(tree) :
            tree[i].total_hours_spent = 2 * C19_NonStopOnPath(i))
    /\ [][Len(tree') # Len(tree) =>
            /\ Len(tree') = Len(tree) + 1
            /\ \E i \in 1..Len(tree) :
                  LET c == tree'[Len(tree')]
                  IN  /\ c.parent = i
                      /\ c.children = <<>>
                      /\ \E k \in 1..Len(tree[i].untried_actions) :
                            /\ tree[i].untried_actions[k] = c.action
                            /\ tree'[i].untried_actions
                                 = C19_Without(tree[i].untried_actions, k)
                      /\ tree'[i].children = Append(tree[i].children, Len(tree'))
                      /\ c.total_hours_spent
                           = tree[i].total_hours_spent
                             + (IF c.action = STOP_ACTION THEN 0 ELSE 2)
                      /\ \A j \in 1..Len(tree) : j # i => tree'[j] = tree[j]]_vars

\* a school expanded under a node that was itself created by a school: 4 hours
C19_Witness ==
    \E i \in 1..Len(tree) :
        /\ tree[i].parent > Root
        /\ tree[i].action # STOP_ACTION
        /\ tree[i].total_hours_spent = 4

\* C20: every action a rollout applies is an action other than STOP that is
\* available in the rollout's state at that moment; the rollout ends at once
\* when only STOP is available, and otherwise either stops early or applies;
\* the hours given to calculate_expected_reward are the start node's
\* total_hours_spent plus 2 for each action the rollout applied.
C20_RolloutSteps ==
    /\ [](pc \in {"rollout", "evaluate", "backpropagate"} =>
            roll.hours = tree[node].total_hours_spent + 2 * Len(roll.applied))
    /\ [][pc = "rollout" =>
            LET actions == available_actions(roll.student, roll.schools)
            IN  /\ actions = <<STOP_ACTION>> => (pc' = "evaluate" /\ roll' = roll)
                /\ roll' = roll => pc' = "evaluate"
                /\ roll' # roll =>
                      /\ pc' = "rollout"
                      /\ Len(roll'.applied) = Len(roll.applied) + 1
                      /\ SubSeq(roll'.applied, 1, Len(roll.applied)) = roll.applied
                      /\ LET action == roll'.applied[Len(roll'.applied)]
                         IN  /\ action # STOP_ACTION
                             /\ action \in Range(actions)
                             /\ \E fit \in FitOutcomes :
                                   LET r == apply_action(roll.student, roll.schools,
                                                         action, fit)
                                   IN  /\ roll'.student = r.student
                                       /\ roll'.schools = r.schools
                                       /\ roll'.hours = roll.hours + 2]_vars

\* a rollout from a node that has 2 hours applied a school and is evaluated
\* with 4 hours
C20_Witness ==
    /\ pc = "evaluate"
    /\ tree[node].total_hours_spent = 2
    /\ Len(roll.applied) = 1
    /\ roll.hours = 4

\* C21: when the first loop ends because the root is fully expanded (not on
\* the deadline), the root has exactly one child for each action available in
\* its state, each child has 1 visit, the root's visits are the number of its
\* children, and no selection has taken place: the tree has no other node,
\* every rollout started at the child just created, and best_child is only
\* called from the second loop.
C21_FirstPhaseComplete ==
    [][/\ (pc = "first_layer" /\ pc' = "search") =>
             LET actions == available_actions(tree[Root].student,
                                              tree[Root].schools_data)
                 kids == tree[Root].children
             IN  /\ tree[Root].untried_actions = <<>>
                 /\ Len(kids) = Len(actions)
                 /\ \A a \in Range(actions) :
                       Cardinality({k \in 1..Len(kids) : tree[kids[k]].action = a}) = 1
                 /\ \A k \in 1..Len(kids) : tree[kids[k]].visits = 1
                 /\ tree[Root].visits = Len(kids)
                 /\ Len(tree) = 1 + Len(kids)
                 /\ starts = kids
       /\ pc' = "select" => pc \in {"search", "select"}]_vars

\* the first loop has ended before the deadline on a root with three children
C21_Witness ==
    /\ pc = "search"
    /\ now < time_limit
    /\ iteration = 3
    /\ Len(tree[Root].children) = 3
    /\ tree[Root].untried_actions = <<>>

\* terminal, as the claims define it
C22_Terminal(n) ==
    \/ n.action = STOP_ACTION
    \/ available_actions(n.student, n.schools_data) = <<STOP_ACTION>>

\* the rollouts that returned and the backpropagations, against the
\* iterations completed
C22_Counts ==
    IF pc = "backpropagate"
    THEN rollouts = iteration + 1 /\ Len(starts) = iteration
    ELSE pc \in {"search", "select", "finish", "done", "rollout", "evaluate"}
            => (rollouts = iteration /\ Len(starts) = iteration)

\* what a step of the second loop may do to the tree and to node
C22_Step ==
    /\ (pc = "select" /\ pc' = "rollout") =>
          \/ /\ Len(tree') = Len(tree) + 1
             /\ node' = Len(tree')
             /\ tree'[node'].parent = node
          \/ /\ tree' = tree
             /\ node' = node
             /\ C22_Terminal(tree[node])
    /\ (pc = "select" /\ pc' # "rollout") => tree' = tree
    /\ (pc = "search") => tree' = tree
    /\ (pc \in {"rollout", "evaluate", "backpropagate"} /\ roll.caller = "search") =>
          /\ Len(tree') = Len(tree)
          /\ node' = node
          /\ (pc = "backpropagate" => (iteration' = iteration + 1 /\ pc' = "search"))

\* C22: each iteration of the second loop runs exactly one rollout and one
\* backpropagation and creates at most one node; its rollout starts either at
\* the child created in that iteration or at an existing terminal node, never
\* at an existing node that is not terminal.
C22_OneRolloutPerIteration == []C22_Counts /\ [][C22_Step]_vars

\* a search whose second loop has both created a node below a root child and
\* rolled out again from an existing terminal node
C22_Witness ==
    /\ pc = "done"
    /\ \E i \in 1..Len(tree) : tree[i].parent > Root
    /\ \E i \in 1..Len(tree) : C22_Terminal(tree[i]) /\ LaunchedOn(i) >= 2

\* an iteration of the first or of the second loop starts with this step
C23_IterationStarts ==
    \/ pc = "first_layer" /\ pc' = "rollout"
    \/ pc = "search" /\ pc' = "select"

\* C23 (as claimed): with a clock that does not run backwards, no iteration
\* of either loop starts once the elapsed time has reached time_limit, and an
\* iteration that has started runs on to its backpropagation.
C23_NoIterationPastDeadline ==
    [][/\ C23_IterationStarts => now' < time_limit
       /\ pc' # "raised"]_vars

\* what the code does keep: with a positive time_limit no iteration starts
\* after a clock reading at or past the deadline
C23_NoIterationPastPositiveDeadline ==
    [][(C23_IterationStarts /\ time_limit > 0) => now' < time_limit]_vars

\* C28 (as claimed): a rollout launched from a node whose action is STOP
\* applies no school action: it evaluates the node's own state and charges
\* the node's total_hours_spent.
C28_StopRolloutAppliesNothing ==
    (pc \in {"rollout", "evaluate", "backpropagate"}
       /\ tree[node].action = STOP_ACTION) =>
        /\ roll.applied = <<>>
        /\ roll.student = tree[node].student
        /\ roll.schools = tree[node].schools_data
        /\ roll.hours = tree[node].total_hours_spent

\* the UCB1 value of child c under a node with N visits is at most that of
\* child e, both children visited
C24_UCBAtMost(N, c, e) ==
    c.total_reward * e.visits * UCB_UNIT
      + UCBExploration[N][c.visits] * c.visits * e.visits * l_den * NumSamples
    <= e.total_reward * c.visits * UCB_UNIT
      + UCBExploration[N][e.visits] * c.visits * e.visits * l_den * NumSamples

\* C24: best_child returns a child without visits whenever the node has one,
\* and otherwise a child whose UCB1 value, total_reward / visits
\* + 1.41 * sqrt(ln(node visits) / child visits), is the largest among the
\* node's children.
C24_BestChild ==
    fn = "best_child" =>
        LET kids == arg.children
        IN  /\ out \in 1..Len(kids)
            /\ (\E j \in 1..Len(kids) : kids[j].visits = 0)
                  => kids[out].visits = 0
            /\ (\A j \in 1..Len(kids) : kids[j].visits > 0)
                  => \A j \in 1..Len(kids) :
                        C24_UCBAtMost(arg.visits, kids[j], kids[out])

\* all children visited, and the one returned is neither the first nor the
\* one with the best average
C24_Witness ==
    /\ fn = "best_child"
    /\ \A j \in 1..Len(arg.children) : arg.children[j].visits > 0
    /\ out > 1
    /\ \E j \in 1..Len(arg.children) :
          arg.children[j].total_reward * arg.children[out].visits
            > arg.children[out].total_reward * arg.children[j].visits

\* C25 (as claimed): when the curve fit fails on a history of three or more
\* checkpoints, expected_essay_improvement returns the two-checkpoint formula
\* on the last two checkpoints, s_last + 2 * (s_last - s_prev)
\* / max(1e-6, h_last - h_prev).
C25_FallbackLastTwo ==
    (fn = "expected_essay_improvement" /\ Len(arg.history) >= 3 /\ ~arg.fit.ok) =>
        LET h == arg.history
            dh == h[Len(h)].hours - h[Len(h) - 1].hours
            s0 == h[Len(h) - 1].score.n
            s1 == h[Len(h)].score.n
        IN  IF dh >= 1
            THEN out.n * dh = out.d * (s1 * dh + 2 * (s1 - s0))
            ELSE out.n = out.d * (s1 + 2 * (s1 - s0) * 1000000)

\* C26: whenever best_child is called in the search, the node has at least 1
\* visit and at least one child and each of its children has at least 1
\* visit, so best_child does not raise and no child is taken for its lack of
\* visits; and between iterations every node other than the root has at
\* least 1 visit.
C26_BestChildWellFounded ==
    /\ (pc = "select" /\ ~is_terminal(tree[node]) /\ is_fully_expanded(tree[node]))
          => /\ tree[node].visits >= 1
             /\ tree[node].children # <<>>
             /\ \A k \in Range(tree[node].children) : tree[k].visits >= 1
             /\ ~best_child_raises(tree, node)
    /\ IterationBoundary =>
          \A i \in 1..Len(tree) : i # Root => tree[i].visits >= 1

\* best_child is about to be called on a root with three children
C26_Witness ==
    /\ pc = "select"
    /\ node = Root
    /\ ~is_terminal(tree[node]) /\ is_fully_expanded(tree[node])
    /\ Len(tree[node].children) = 3

\* the actions on the path from the root to node i, the root's side first
RECURSIVE C27_Path(_)
C27_Path(i) ==
    IF tree[i].parent = 0 THEN <<>>
    ELSE Append(C27_Path(tree[i].parent), tree[i].action)

\* no action other than STOP occurs twice in seq
C27_NoRepeat(seq) ==
    LET schools == {j \in 1..Len(seq) : seq[j] # STOP_ACTION}
    IN  Cardinality({seq[j] : j \in schools}) = Cardinality(schools)

C29_ChildActions(i) ==
    [k \in 1..Len(tree[i].children) |-> tree[tree[i].children[k]].action]

\* C29: at every node the children's actions are pairwise distinct, and each
\* action available in the node's state is in exactly one of untried_actions
\* and the children's actions, which hold nothing else; is_fully_expanded
\* holds exactly when every available action has a child.
C29_ActionsPartitioned ==
    pc # "idle" =>
        \A i \in 1..Len(tree) :
            LET actions == Range(available_actions(tree[i].student,
                                                   tree[i].schools_data))
                tried == Range(C29_ChildActions(i))
                untried == Range(tree[i].untried_actions)
            IN  /\ Cardinality(tried) = Len(tree[i].children)
                /\ Cardinality(untried) = Len(tree[i].untried_actions)
                /\ tried \cap untried = {}
                /\ tried \cup untried = actions
                /\ is_fully_expanded(tree[i]) <=> actions \subseteq tried

\* a node below the root with one action tried and another still untried
C29_Witness ==
    \E i \in 1..Len(tree) :
        /\ i # Root
        /\ Len(tree[i].children) >= 1
        /\ Len(tree[i].untried_actions) >= 1

\* the root children whose average reward no other root child exceeds
C30_Best ==
    {k \in 1..Len(tree[Root].children) :
        \A j \in Range(tree[Root].children) :
            C2_AverageAtMost(tree[j], tree[tree[Root].children[k]])}

\* C30: at every node the k-th child created has the k-th action from the
\* end of the available actions: the STOP child first, then the schools in
\* reverse catalog order; and mcts_search returns the action of the earliest
\* created of the root children with the highest average reward, which is
\* STOP when the STOP child is among them.
C30_LastInFirstOut ==
    pc # "idle" =>
        /\ \A i \in 1..Len(tree) :
              LET actions == available_actions(tree[i].student,
                                               tree[i].schools_data)
              IN  \A k \in 1..Len(tree[i].children) :
                      tree[tree[i].children[k]].action
                        = actions[Len(actions) - k + 1]
        /\ (pc = "done" /\ tree[Root].children # <<>>) =>
              LET first == CHOOSE k \in C30_Best : \A j \in C30_Best : k <= j
              IN  /\ result = tree[tree[Root].children[first]].action
                  /\ (\E k \in C30_Best :
                         tree[tree[Root].children[k]].action = STOP_ACTION)
                       => result = STOP_ACTION

\* a finished search over two schools in which the STOP child and a school's
\* child tie for the highest average
C30_Witness ==
    /\ pc = "done"
    /\ Len(tree[Root].children) = 3
    /\ Cardinality(C30_Best) >= 2
    /\ 1 \in C30_Best
    /\ result = STOP_ACTION

====
